---- MODULE Spec2Model ----
(***************************************************************************)
(* Member Merger (MemberMerger.py): merge of Label Studio task arrays and  *)
(* content-addressed flattening of image archives.                         *)
(*                                                                         *)
(* Strings that are parsed by the program (upload identifiers, image       *)
(* references) are sequences of one-character strings.  JSON values that   *)
(* may be missing or null carry a "kind" tag.                              *)
(***************************************************************************)
EXTENDS Integers, Sequences, FiniteSets, TLC

VARIABLES
    pc,          \* position of the running operation
    err,         \* the exception that left the operation, "" when none
    task_lists,  \* merge_ls_tasks: the argument (one task list per contributor)
    merged,      \* merge_ls_tasks: the returned list
    task_lists_at_call, \* history: the value of task_lists when merge_ls_tasks was called
    zips,        \* extract_and_flatten_zips: zip_paths, each with the archive behind it
    zi,          \* index of the next archive to extract
    fs_tmp,      \* the directory _unzips_tmp (tmp_root)
    fs_dest,     \* the directory dest_dir (Temp when main calls)
    seen_hash,   \* digest -> name of the copy written for it
    written,
    skipped,
    todo,        \* entries of tmp_root that rglob has not yet produced
    caller,      \* "main" when main runs, "" when an operation is called on its own
    members,     \* main: the --member triples, each with the files behind its paths
    mi,          \* main: index of the member being processed
    audit,       \* main: members whose inputs were copied to Individuals
    merged_json, \* main: whether merged_input.json was written
    merged_zip   \* main: merged_images.zip

mergeVars == <<task_lists, merged, task_lists_at_call>>
flatVars == <<zips, zi, fs_tmp, fs_dest, seen_hash, written, skipped, todo>>
mainVars == <<caller, members, mi, audit, merged_json, merged_zip>>

(***************************************************************************)
(* Bounds of the input families.                                           *)
(***************************************************************************)
MaxTasks == 2
MaxAnns == 3
MaxResults == 2
MaxFiles == 3
MaxTeam == 3

(* Team size limits checked by main. *)
MinMembers == 2
MaxMembers == 4

(***************************************************************************)
(* Generic sequence helpers.                                               *)
(***************************************************************************)
SeqsUpTo(S, n) == UNION {[1..k -> S] : k \in 0..n}

RECURSIVE Concat(_)
Concat(ss) == IF ss = <<>> THEN <<>> ELSE Head(ss) \o Concat(Tail(ss))

RECURSIVE SumSeq(_)
SumSeq(s) == IF s = <<>> THEN 0 ELSE Head(s) + SumSeq(Tail(s))

Range(s) == {s[i] : i \in DOMAIN s}

(***************************************************************************)
(* JSON values of a task.                                                  *)
(***************************************************************************)
NoneStr == <<"None">>                  \* a missing / null string field
AbsentField == [kind |-> "absent", items |-> <<>>]
NullField == [kind |-> "null", items |-> <<>>]
ListField(s) == [kind |-> "list", items |-> s]

NoId == <<"None">>                     \* a result entry without "id"

(* First 6 hex characters of md5(str(r)) for the result bodies of the      *)
(* model: a 24-bit truncation, so two different bodies may share it.       *)
Md5Hex6(body) ==
    CASE body = "x" -> "d1e5a0"
      [] body = "y" -> "77c2b9"
      [] body = "z" -> "d1e5a0"

(***************************************************************************)
(* task_key                                                                *)
(***************************************************************************)
Truthy(s) == s # NoneStr /\ s # <<>>

RECURSIVE StripSlashes(_)
StripSlashes(s) ==
    IF s # <<>> /\ s[Len(s)] = "/" THEN StripSlashes(SubSeq(s, 1, Len(s) - 1)) ELSE s

RECURSIVE AfterLastSlash(_)
AfterLastSlash(s) ==
    IF s = <<>> THEN <<>>
    ELSE IF s[Len(s)] = "/" THEN <<>>
    ELSE AfterLastSlash(SubSeq(s, 1, Len(s) - 1)) \o <<s[Len(s)]>>

(* Path(img).name *)
PathName(img) == AfterLastSlash(StripSlashes(img))

task_key(task) ==
    IF Truthy(task.file_upload) THEN task.file_upload
    ELSE IF PathName(task.image) # <<>> THEN PathName(task.image)
    ELSE task.image

(***************************************************************************)
(* merge_ls_tasks                                                          *)
(***************************************************************************)
(* t.get("annotations", []) *)
GetAnnotations(t) == IF t.annotations.kind = "absent" THEN ListField(<<>>) ELSE t.annotations

(* len(t.get("annotations", [])) raises TypeError on null *)
LenRaises(t) == GetAnnotations(t).kind = "null"

AnnCount(t) == Len(GetAnnotations(t).items)

(* t.get("annotations", []) or [] *)
AnnsOrEmpty(t) == IF GetAnnotations(t).kind = "list" THEN GetAnnotations(t).items ELSE <<>>

(* The tasks in the order the two for-loops visit them. *)
VisitOrder(tls) == Concat(tls)

(* bucket: insertion-ordered; its keys in first-insertion order *)
RECURSIVE BucketKeys(_)
BucketKeys(ts) ==
    IF ts = <<>> THEN <<>>
    ELSE LET init == BucketKeys(SubSeq(ts, 1, Len(ts) - 1))
             k == task_key(ts[Len(ts)])
         IN IF k \in Range(init) THEN init ELSE Append(init, k)

Bucket(ts, k) == SelectSeq(ts, LAMBDA t : task_key(t) = k)

RECURSIVE InsertDescUnstable(_, _)
InsertDescUnstable(sorted, x) ==
    IF sorted = <<>> THEN <<x>>
    ELSE IF AnnCount(Head(sorted)) > AnnCount(x)
         THEN <<Head(sorted)>> \o InsertDescUnstable(Tail(sorted), x)
         ELSE <<x>> \o sorted

(* sorted(..., reverse=True) is stable: insert x after every element whose *)
(* count is >= its own.                                                    *)
RECURSIVE InsertDesc(_, _)
InsertDesc(sorted, x) ==
    IF sorted = <<>> THEN <<x>>
    ELSE IF AnnCount(Head(sorted)) >= AnnCount(x)
         THEN <<Head(sorted)>> \o InsertDesc(Tail(sorted), x)
         ELSE <<x>> \o sorted

RECURSIVE TasksSorted(_)
TasksSorted(tasks) ==
    IF tasks = <<>> THEN <<>>
    ELSE InsertDesc(TasksSorted(SubSeq(tasks, 1, Len(tasks) - 1)), tasks[Len(tasks)])

(* all_anns *)
AllAnnsBaseOnly(tasks) == AnnsOrEmpty(TasksSorted(tasks)[1])

AllAnns(tasks) == Concat([i \in 1..Len(tasks) |-> AnnsOrEmpty(tasks[i])])

(* r["id"] = r.get("id") or f"res_{ann_id}_{md5(str(r))[:6]}" *)
ResultWithId(r, ann_id) ==
    IF Truthy(r.id) THEN r
    ELSE [r EXCEPT !.id = <<"res_", ToString(ann_id), "_", Md5Hex6(r.body)>>]

NewAnnsKeepIds(all_anns) ==
    [i \in 1..Len(all_anns) |->
        [id |-> all_anns[i].id,
         result |-> [j \in 1..Len(all_anns[i].result) |->
                        ResultWithId(all_anns[i].result[j], all_anns[i].id)]]]

(* new_anns: next_id runs 1, 2, ... over all_anns *)
NewAnns(all_anns) ==
    [i \in 1..Len(all_anns) |->
        [id |-> i,
         result |-> [j \in 1..Len(all_anns[i].result) |->
                        ResultWithId(all_anns[i].result[j], i)]]]

MergeGroup(tasks) ==
    LET base == TasksSorted(tasks)[1]
    IN [base EXCEPT !.annotations = ListField(NewAnns(AllAnns(tasks)))]

MergeLsTasks(tls) ==
    LET ts == VisitOrder(tls)
        keys == BucketKeys(ts)
    IN [g \in 1..Len(keys) |-> MergeGroup(Bucket(ts, keys[g]))]

MergeRaises(tls) == \E i \in DOMAIN VisitOrder(tls) : LenRaises(VisitOrder(tls)[i])

(* The call returns; every write went to a json round-trip copy, so the    *)
(* argument is left as it was.                                             *)
MergeReturn ==
    /\ pc = "merge_call"
    /\ ~MergeRaises(task_lists)
    /\ merged' = MergeLsTasks(task_lists)
    /\ pc' = "merge_returned"
    /\ UNCHANGED <<err, task_lists, task_lists_at_call, flatVars, mainVars>>

(* len(None) in the sort key *)
MergeRaise ==
    /\ pc = "merge_call"
    /\ MergeRaises(task_lists)
    /\ pc' = "merge_raised"
    /\ err' = "TypeError"
    /\ UNCHANGED <<mergeVars, flatVars, mainVars>>

(***************************************************************************)
(* Inputs of merge_ls_tasks.                                               *)
(***************************************************************************)
TaskHeads ==
    { [file_upload |-> <<"a">>, image |-> <<"d", "/", "b">>],
      [file_upload |-> NoneStr, image |-> <<"d", "/", "a">>],
      [file_upload |-> NoneStr, image |-> <<"b">>] }

AnnIds == {3, 7}

Entries ==
    { [id |-> NoId, body |-> "x"], [id |-> NoId, body |-> "y"],
      [id |-> NoId, body |-> "z"], [id |-> <<"r", "1">>, body |-> "x"] }

(* Two annotations that differ in the identifier they carry and in their  *)
(* content.                                                                *)
PlainAnnotations ==
    { [id |-> 3, result |-> <<>>],
      [id |-> 7, result |-> <<[id |-> <<"r", "1">>, body |-> "x"]>>] }

ResultAnnotations == [id : AnnIds, result : SeqsUpTo(Entries, MaxResults)]

AnnFields(anns) ==
    {AbsentField, NullField} \cup {ListField(s) : s \in SeqsUpTo(anns, MaxAnns)}

Tasks(heads, anns) ==
    {[file_upload |-> h.file_upload, image |-> h.image, annotations |-> a] :
        h \in heads, a \in AnnFields(anns)}

(***************************************************************************)
(* Files, names and digests.                                               *)
(*                                                                         *)
(* A file name is a stem and an extension; a stem is a sequence of tokens  *)
(* joined by "_", so that "cat_1f3a9c2e.png" has the stem                  *)
(* <<"cat", "1f3a9c2e">>.  A path inside an archive adds the directory.    *)
(***************************************************************************)
IMAGE_EXTENSIONS == {".jpg", ".jpeg", ".png", ".bmp", ".tif", ".tiff", ".webp"}

Contents == {"c1", "c2", "c3"}

(* sha1_of_file: the digest as <<first 8 hex characters, the other 32>>.   *)
(* Different contents have different digests; c1 and c3 share the first 8. *)
sha1_of_file(content) ==
    CASE content = "c1" -> <<"1f3a9c2e", "r1">>
      [] content = "c2" -> <<"8b04d7aa", "r2">>
      [] content = "c3" -> <<"1f3a9c2e", "r3">>

(* sha1[:8] *)
Prefix8(sha1) == sha1[1]

NameOf(p) == [stem |-> p.stem, ext |-> p.ext]

Paths ==
    { [dir |-> "", stem |-> <<"cat">>, ext |-> ".png"],
      [dir |-> "d", stem |-> <<"cat">>, ext |-> ".png"],
      [dir |-> "", stem |-> <<"cat", "1f3a9c2e">>, ext |-> ".png"],
      [dir |-> "", stem |-> <<"notes">>, ext |-> ".txt"],
      [dir |-> "", stem |-> <<"._cat">>, ext |-> ".png"] }

(* p.name.startswith("._") or "DS_Store" in p.name *)
IsMetadataName(p) == p.stem[1] \in {"._cat", ".DS_Store"}

EmptyDir == [exists |-> TRUE, files |-> <<>>]
NoDir == [exists |-> FALSE, files |-> <<>>]

(* What tmp_root.rglob("*") produces: every file, and every directory.    *)
TreeEntries(files) ==
    {[dir |-> p.dir, stem |-> p.stem, ext |-> p.ext, isfile |-> TRUE] : p \in DOMAIN files}
    \cup {[dir |-> "", stem |-> <<p.dir>>, ext |-> "", isfile |-> FALSE] :
            p \in {q \in DOMAIN files : q.dir # ""}}

PathOf(e) == [dir |-> e.dir, stem |-> e.stem, ext |-> e.ext]

(***************************************************************************)
(* extract_and_flatten_zips                                                *)
(***************************************************************************)
(* Lines 96-103: dest_dir is cleared and recreated, tmp_root is made       *)
(* (exist_ok: what it held stays).                                         *)
FlattenPrepare ==
    /\ pc = "flat_call"
    /\ fs_dest' = EmptyDir
    /\ fs_tmp' = [exists |-> TRUE, files |-> fs_tmp.files]
    /\ seen_hash' = <<>>
    /\ written' = 0
    /\ skipped' = 0
    /\ zi' = 1
    /\ pc' = "flat_extract"
    /\ UNCHANGED <<err, zips, todo, mergeVars, mainVars>>

(* zf.extractall(tmp_root): a member replaces a file already at its path. *)
ExtractZip ==
    /\ pc = "flat_extract"
    /\ zi <= Len(zips)
    /\ zips[zi].kind = "ok"
    /\ fs_tmp' = [fs_tmp EXCEPT !.files = zips[zi].files @@ fs_tmp.files]
    /\ zi' = zi + 1
    /\ UNCHANGED <<pc, err, zips, fs_dest, seen_hash, written, skipped, todo,
                   mergeVars, mainVars>>

ExtractRaiseNoCleanup ==
    /\ pc = "flat_extract"
    /\ zi <= Len(zips)
    /\ zips[zi].kind = "corrupt"
    /\ pc' = "raised"
    /\ err' = "BadZipFile"
    /\ UNCHANGED <<zips, zi, fs_tmp, fs_dest, seen_hash, written, skipped, todo,
                   mergeVars, mainVars>>

(* A malformed archive: zipfile raises BadZipFile, the finally clause      *)
(* removes tmp_root with what was extracted so far, the error leaves.      *)
ExtractRaise ==
    /\ pc = "flat_extract"
    /\ zi <= Len(zips)
    /\ zips[zi].kind = "corrupt"
    /\ fs_tmp' = NoDir
    /\ pc' = "raised"
    /\ err' = "BadZipFile"
    /\ UNCHANGED <<zips, zi, fs_dest, seen_hash, written, skipped, todo,
                   mergeVars, mainVars>>

(* The rglob walk starts once every archive is extracted. *)
StartWalk ==
    /\ pc = "flat_extract"
    /\ zi > Len(zips)
    /\ todo' = TreeEntries(fs_tmp.files)
    /\ pc' = "flat_walk"
    /\ UNCHANGED <<err, zips, zi, fs_tmp, fs_dest, seen_hash, written, skipped,
                   mergeVars, mainVars>>

Skip(p) ==
    /\ todo' = todo \ {p}
    /\ UNCHANGED <<pc, err, zips, zi, fs_tmp, fs_dest, seen_hash, written, skipped,
                   mergeVars, mainVars>>

(* Past the two name filters; every extension of the model is lower case,  *)
(* so p.suffix.lower() is p.ext.                                           *)
IsCandidate(p) == ~IsMetadataName(p) /\ p.ext \in IMAGE_EXTENSIONS

(* if not p.is_file(): continue *)
SkipNonFile ==
    /\ pc = "flat_walk"
    /\ \E p \in todo : ~p.isfile /\ Skip(p)

(* if p.name.startswith("._") or "DS_Store" in p.name: continue *)
SkipMetadata ==
    /\ pc = "flat_walk"
    /\ \E p \in todo : p.isfile /\ IsMetadataName(p) /\ Skip(p)

(* if p.suffix.lower() not in IMAGE_EXTENSIONS: continue *)
SkipNonImage ==
    /\ pc = "flat_walk"
    /\ \E p \in todo :
          p.isfile /\ ~IsMetadataName(p) /\ p.ext \notin IMAGE_EXTENSIONS /\ Skip(p)

(* if sha1 in seen_hash: skipped += 1; continue *)
SkipDuplicate ==
    /\ pc = "flat_walk"
    /\ \E p \in todo :
          /\ p.isfile /\ IsCandidate(p)
          /\ sha1_of_file(fs_tmp.files[PathOf(p)]) \in DOMAIN seen_hash
          /\ skipped' = skipped + 1
          /\ todo' = todo \ {p}
    /\ UNCHANGED <<pc, err, zips, zi, fs_tmp, fs_dest, seen_hash, written,
                   mergeVars, mainVars>>

(* dst = dest_dir / p.name, or stem_<sha1[:8]>.ext when that exists *)
Destination(p, sha1, dest) ==
    IF NameOf(p) \in DOMAIN dest.files
    THEN [stem |-> Append(p.stem, Prefix8(sha1)), ext |-> p.ext]
    ELSE NameOf(p)

(* shutil.copy2(p, dst); seen_hash[sha1] = dst.name; written += 1 *)
CopyFile ==
    /\ pc = "flat_walk"
    /\ \E p \in todo :
          LET content == fs_tmp.files[PathOf(p)]
              sha1 == sha1_of_file(content)
              dst == Destination(p, sha1, fs_dest)
          IN /\ p.isfile /\ IsCandidate(p)
             /\ sha1 \notin DOMAIN seen_hash
             /\ fs_dest' = [fs_dest EXCEPT !.files = (dst :> content) @@ fs_dest.files]
             /\ seen_hash' = (sha1 :> dst) @@ seen_hash
             /\ written' = written + 1
             /\ todo' = todo \ {p}
    /\ UNCHANGED <<pc, err, zips, zi, fs_tmp, skipped, mergeVars, mainVars>>

(* The walk is over: the finally clause removes tmp_root, the counters are *)
(* returned.                                                               *)
FlattenReturn ==
    /\ pc = "flat_walk"
    /\ todo = {}
    /\ fs_tmp' = NoDir
    /\ pc' = IF caller = "main" THEN "main_pack" ELSE "flat_returned"
    /\ UNCHANGED <<err, zips, zi, fs_dest, seen_hash, written, skipped, todo,
                   mergeVars, mainVars>>

NextFlatten ==
    \/ FlattenPrepare
    \/ ExtractZip
    \/ ExtractRaise
    \/ StartWalk
    \/ SkipNonFile
    \/ SkipMetadata
    \/ SkipNonImage
    \/ SkipDuplicate
    \/ CopyFile
    \/ FlattenReturn

(***************************************************************************)
(* main                                                                    *)
(***************************************************************************)
(* Line 160: the team size check, before any file is touched. *)
MainTeamSizeRaise ==
    /\ pc = "main_call"
    /\ ~(MinMembers <= Len(members) /\ Len(members) <= MaxMembers)
    /\ pc' = "raised"
    /\ err' = "RuntimeError"
    /\ UNCHANGED <<mergeVars, flatVars, mainVars>>

(* Lines 163-172: Merger, Merger/Individuals and Merger/Temp are made. *)
MainMakeDirs ==
    /\ pc = "main_call"
    /\ MinMembers <= Len(members) /\ Len(members) <= MaxMembers
    /\ fs_dest' = [exists |-> TRUE, files |-> fs_dest.files]
    /\ task_lists' = <<>>
    /\ zips' = <<>>
    /\ mi' = 1
    /\ pc' = "main_member"
    /\ UNCHANGED <<err, merged, task_lists_at_call, zi, fs_tmp, seen_hash, written,
                   skipped, todo, caller, members, audit, merged_json, merged_zip>>

(* if not jp.exists(): raise FileNotFoundError(jp) *)
MemberJsonMissing ==
    /\ pc = "main_member"
    /\ mi <= Len(members)
    /\ members[mi].json.kind = "missing"
    /\ pc' = "raised"
    /\ err' = "FileNotFoundError"
    /\ UNCHANGED <<mergeVars, flatVars, mainVars>>

(* if not zp.exists(): raise FileNotFoundError(zp) *)
MemberZipMissing ==
    /\ pc = "main_member"
    /\ mi <= Len(members)
    /\ members[mi].json.kind # "missing"
    /\ members[mi].zip.kind = "missing"
    /\ pc' = "raised"
    /\ err' = "FileNotFoundError"
    /\ UNCHANGED <<mergeVars, flatVars, mainVars>>

(* Both files are copied to Individuals, then load_ls_array raises         *)
(* ValueError: the JSON file is no array.                                  *)
MemberLoadRaise ==
    /\ pc = "main_member"
    /\ mi <= Len(members)
    /\ members[mi].zip.kind # "missing"
    /\ members[mi].json.kind = "notlist"
    /\ audit' = audit \cup {mi}
    /\ pc' = "raised"
    /\ err' = "ValueError"
    /\ UNCHANGED <<mergeVars, flatVars, caller, members, mi, merged_json, merged_zip>>

(* Lines 184-188: the audit copies, then the tasks and the archive path    *)
(* are appended.                                                           *)
MemberLoaded ==
    /\ pc = "main_member"
    /\ mi <= Len(members)
    /\ members[mi].zip.kind # "missing"
    /\ members[mi].json.kind = "list"
    /\ audit' = audit \cup {mi}
    /\ task_lists' = Append(task_lists, members[mi].json.tasks)
    /\ zips' = Append(zips, members[mi].zip)
    /\ mi' = mi + 1
    /\ UNCHANGED <<pc, err, merged, task_lists_at_call, zi, fs_tmp, fs_dest, seen_hash,
                   written, skipped, todo, caller, members, merged_json, merged_zip>>

(* merge_ls_tasks raises: merged_input.json is not opened. *)
MainMergeRaise ==
    /\ pc = "main_member"
    /\ mi > Len(members)
    /\ MergeRaises(task_lists)
    /\ pc' = "raised"
    /\ err' = "TypeError"
    /\ UNCHANGED <<mergeVars, flatVars, mainVars>>

(* Lines 190-195: the merged tasks are written to merged_input.json and    *)
(* extract_and_flatten_zips(zip_paths, img_work) is called.                *)
MainMergeAndDump ==
    /\ pc = "main_member"
    /\ mi > Len(members)
    /\ ~MergeRaises(task_lists)
    /\ merged' = MergeLsTasks(task_lists)
    /\ task_lists_at_call' = task_lists
    /\ merged_json' = TRUE
    /\ pc' = "flat_call"
    /\ UNCHANGED <<err, task_lists, flatVars, caller, members, mi, audit, merged_zip>>

(* zip_dir(img_work, merged_zip) *)
MainPack ==
    /\ pc = "main_pack"
    /\ merged_zip' = [exists |-> TRUE, files |-> fs_dest.files]
    /\ pc' = "main_cleanup"
    /\ UNCHANGED <<err, mergeVars, flatVars, caller, members, mi, audit, merged_json>>

(* shutil.rmtree(img_work, ignore_errors=True), then the summary *)
MainCleanup ==
    /\ pc = "main_cleanup"
    /\ fs_dest' = NoDir
    /\ pc' = "main_done"
    /\ UNCHANGED <<err, mergeVars, zips, zi, fs_tmp, seen_hash, written, skipped, todo,
                   mainVars>>

NextMain ==
    \/ MainTeamSizeRaise
    \/ MainMakeDirs
    \/ MemberJsonMissing
    \/ MemberZipMissing
    \/ MemberLoadRaise
    \/ MemberLoaded
    \/ MainMergeRaise
    \/ MainMergeAndDump
    \/ NextFlatten
    \/ MainPack
    \/ MainCleanup

(***************************************************************************)
(* Initial states.                                                         *)
(***************************************************************************)
IdleMerge == task_lists = <<>> /\ merged = <<>> /\ task_lists_at_call = <<>>

IdleFlatten ==
    /\ zips = <<>> /\ zi = 0 /\ fs_tmp = NoDir /\ fs_dest = NoDir
    /\ seen_hash = <<>> /\ written = 0 /\ skipped = 0 /\ todo = {}

IdleMain ==
    /\ caller = "" /\ members = <<>> /\ mi = 0 /\ audit = {}
    /\ merged_json = FALSE /\ merged_zip = NoDir

(* Two contributors (the smallest team main accepts) submitting at most   *)
(* MaxTasks tasks with at most MaxAnns annotations together: task i has    *)
(* the head heads[i], an annotations field of kind kinds[i] and, when that *)
(* is a list, the next counts[i] annotations of flat.                      *)
TaskAt(heads, kinds, counts, flat, i) ==
    LET before == SumSeq([j \in 1..(i - 1) |-> counts[j]])
    IN [file_upload |-> heads[i].file_upload,
        image |-> heads[i].image,
        annotations |->
            [kind |-> kinds[i],
             items |-> SubSeq(flat, before + 1, before + counts[i])]]

InitMerge ==
    /\ pc = "merge_call"
    /\ err = ""
    /\ \E n1 \in 0..MaxTasks : \E n2 \in 0..(MaxTasks - n1) :
          \E heads \in [1..(n1 + n2) -> TaskHeads] :
             \E kinds \in [1..(n1 + n2) -> {"absent", "null", "list"}] :
                \E counts \in [1..(n1 + n2) -> 0..MaxAnns] :
                   /\ \A i \in 1..(n1 + n2) : kinds[i] # "list" => counts[i] = 0
                   /\ SumSeq(counts) <= MaxAnns
                   /\ \E flat \in [1..SumSeq(counts) -> PlainAnnotations] :
                         task_lists =
                            <<[i \in 1..n1 |-> TaskAt(heads, kinds, counts, flat, i)],
                              [i \in 1..n2 |-> TaskAt(heads, kinds, counts, flat, n1 + i)]>>
    /\ task_lists_at_call = task_lists
    /\ merged = <<>>
    /\ IdleFlatten /\ IdleMain

(* One task whose annotations carry result entries. *)
InitResult ==
    /\ pc = "merge_call"
    /\ err = ""
    /\ \E t \in Tasks({[file_upload |-> <<"a">>, image |-> <<"a">>]}, ResultAnnotations) :
          task_lists = <<<<t>>, <<>>>>
    /\ task_lists_at_call = task_lists
    /\ merged = <<>>
    /\ IdleFlatten /\ IdleMain

(* Archives: the files of an archive that can be read, by path.  A         *)
(* malformed archive has no readable content.                              *)
Archive(places, f, i) ==
    [kind |-> "ok",
     files |-> [p \in {q \in Paths : <<i, q>> \in places} |-> f[<<i, p>>]]]

CorruptArchive == [kind |-> "corrupt", files |-> <<>>]

(* A leftover of an earlier run in dest_dir. *)
Leftover ==
    [exists |-> TRUE, files |-> ([stem |-> <<"cat">>, ext |-> ".png"] :> "c2")]

(* Two archives (the smallest team main accepts) holding at most MaxFiles  *)
(* files together, either of them possibly malformed.                      *)
InitFlatten ==
    /\ pc = "flat_call"
    /\ err = ""
    /\ \E kinds \in [1..MinMembers -> {"ok", "corrupt"}] :
          \E places \in SUBSET ({i \in 1..MinMembers : kinds[i] = "ok"} \X Paths) :
             /\ Cardinality(places) <= MaxFiles
             /\ \E f \in [places -> Contents] :
                   zips = [i \in 1..MinMembers |->
                             IF kinds[i] = "ok" THEN Archive(places, f, i)
                             ELSE CorruptArchive]
    /\ fs_dest \in {NoDir, Leftover}
    /\ zi = 0 /\ fs_tmp = NoDir
    /\ seen_hash = <<>> /\ written = 0 /\ skipped = 0 /\ todo = {}
    /\ IdleMerge /\ IdleMain

(* The files behind the paths of a --member triple. *)
JsonFiles ==
    { [kind |-> "missing", tasks |-> <<>>],
      [kind |-> "notlist", tasks |-> <<>>],
      [kind |-> "list",
       tasks |-> <<[file_upload |-> <<"a">>, image |-> <<"a">>,
                    annotations |-> ListField(<<[id |-> 3, result |-> <<>>]>>)]>>],
      [kind |-> "list",
       tasks |-> <<[file_upload |-> <<"a">>, image |-> <<"a">>,
                    annotations |-> NullField]>>] }

ZipFiles ==
    { [kind |-> "missing", files |-> <<>>],
      CorruptArchive,
      [kind |-> "ok",
       files |-> ([dir |-> "", stem |-> <<"cat">>, ext |-> ".png"] :> "c1")
                 @@ ([dir |-> "", stem |-> <<"notes">>, ext |-> ".txt"] :> "c2")
                 @@ ([dir |-> "", stem |-> <<"._cat">>, ext |-> ".png"] :> "c1")],
      [kind |-> "ok",
       files |-> ([dir |-> "d", stem |-> <<"cat">>, ext |-> ".png"] :> "c1")] }

(* A run of main in an empty working directory with 1..MaxTeam members.    *)
InitMain ==
    /\ pc = "main_call"
    /\ err = ""
    /\ caller = "main"
    /\ \E n \in 1..MaxTeam : members \in [1..n -> [json : JsonFiles, zip : ZipFiles]]
    /\ mi = 0 /\ audit = {} /\ merged_json = FALSE /\ merged_zip = NoDir
    /\ IdleMerge /\ IdleFlatten

vars == <<pc, err, mergeVars, flatVars, mainVars>>

NextMerge == MergeReturn \/ MergeRaise

SpecMerge == InitMerge /\ [][NextMerge]_vars

SpecResult == InitResult /\ [][NextMerge]_vars

SpecFlatten == InitFlatten /\ [][NextFlatten]_vars

SpecMain == InitMain /\ [][NextMain]_vars

(***************************************************************************)
(* Properties of merge_ls_tasks.                                           *)
(***************************************************************************)
InputTasks == Concat(task_lists_at_call)

InputCount(t) == IF t.annotations.kind = "list" THEN Len(t.annotations.items) ELSE 0

(* Indices of the input tasks with key k, in contributor-submission order. *)
GroupIdx(k) == {i \in DOMAIN InputTasks : task_key(InputTasks[i]) = k}

InputKeys == {task_key(InputTasks[i]) : i \in DOMAIN InputTasks}

RECURSIVE GroupAnns(_, _)
GroupAnns(k, n) ==
    IF n = 0 THEN <<>>
    ELSE GroupAnns(k, n - 1) \o
         (IF n \in GroupIdx(k) /\ InputTasks[n].annotations.kind = "list"
          THEN InputTasks[n].annotations.items ELSE <<>>)

MergedFor(k) == {g \in DOMAIN merged : task_key(merged[g]) = k}

(* C1: when merge_ls_tasks returns, every task key of the input has        *)
(* exactly one merged task, whose annotation count is the sum of the       *)
(* annotation counts of the input tasks with that key (no annotations      *)
(* field counts as zero).                                                  *)
C1_OneTaskPerKeyWithSummedCount ==
    pc = "merge_returned" =>
        \A k \in InputKeys :
            /\ Cardinality(MergedFor(k)) = 1
            /\ \A g \in MergedFor(k) :
                  Len(merged[g].annotations.items) =
                  SumSeq([i \in DOMAIN InputTasks |->
                            IF i \in GroupIdx(k) THEN InputCount(InputTasks[i]) ELSE 0])

(* Contributor A has the key with 1 annotation, contributor B with 2; the  *)
(* merged list is one task with 3 annotations.                             *)
C1_Witness ==
    /\ pc = "merge_returned"
    /\ Len(task_lists[1]) = 1 /\ Len(task_lists[2]) = 1
    /\ InputCount(task_lists[1][1]) = 1
    /\ InputCount(task_lists[2][1]) = 2
    /\ task_lists[1][1].file_upload # task_lists[2][1].file_upload
    /\ Len(merged) = 1
    /\ Len(merged[1].annotations.items) = 3

(* C2: in every merged task the annotation identifiers are 1..n in         *)
(* collection order: the i-th annotation is the i-th annotation of the     *)
(* group's tasks taken in contributor-submission order, whatever           *)
(* identifier it carried in the input.                                     *)
C2_IdsSequentialInCollectionOrder ==
    pc = "merge_returned" =>
        \A g \in DOMAIN merged :
            LET out == merged[g].annotations.items
                inp == GroupAnns(task_key(merged[g]), Len(InputTasks))
            IN /\ Len(out) = Len(inp)
               /\ \A i \in DOMAIN out :
                     /\ out[i].id = i
                     /\ Len(out[i].result) = Len(inp[i].result)
                     /\ \A j \in DOMAIN out[i].result :
                           out[i].result[j].body = inp[i].result[j].body

(* Two contributors, the second with more annotations than the first, and *)
(* input identifiers that are not 1..n.                                    *)
C2_Witness ==
    /\ pc = "merge_returned"
    /\ Len(task_lists[1]) = 1 /\ Len(task_lists[2]) = 1
    /\ InputCount(task_lists[1][1]) = 1
    /\ InputCount(task_lists[2][1]) = 2
    /\ task_lists[1][1].annotations.items[1].id = 7
    /\ task_lists[2][1].annotations.items[1].id = 3
    /\ task_lists[2][1].annotations.items[2].id = 3
    /\ Len(merged) = 1
    /\ merged[1].annotations.items[1].result # <<>>
    /\ merged[1].annotations.items[3].id = 3

(* C8 as stated: in every merged task each result entry has an identifier *)
(* and no two result entries of the task have the same one.                *)
C8_ResultIdsUnique ==
    pc = "merge_returned" =>
        \A g \in DOMAIN merged :
            LET anns == merged[g].annotations.items
                pos == {<<i, j>> \in (DOMAIN anns) \X (1..MaxResults) :
                            j \in DOMAIN anns[i].result}
            IN /\ \A p \in pos : Truthy(anns[p[1]].result[p[2]].id)
               /\ \A p, q \in pos :
                     p # q => anns[p[1]].result[p[2]].id # anns[q[1]].result[q[2]].id

(* C9: when merge_ls_tasks returns, the merged task of a group carries    *)
(* the non-annotation fields of the group's task with the most             *)
(* annotations, the first such task in contributor-submission order on a   *)
(* tie; and the argument is what it was when the call was made.            *)
C9_BaseIsFirstMaxAndInputKept ==
    pc = "merge_returned" =>
        /\ task_lists = task_lists_at_call
        /\ \A g \in DOMAIN merged :
              LET idx == GroupIdx(task_key(merged[g]))
                  best == CHOOSE i \in idx :
                             \A j \in idx :
                                \/ InputCount(InputTasks[j]) < InputCount(InputTasks[i])
                                \/ /\ InputCount(InputTasks[j]) = InputCount(InputTasks[i])
                                   /\ i <= j
              IN /\ merged[g].file_upload = InputTasks[best].file_upload
                 /\ merged[g].image = InputTasks[best].image

(* Two tasks of one group tie for the most annotations and differ in      *)
(* their fields; the merged task has the fields of the first.             *)
C9_Witness ==
    /\ pc = "merge_returned"
    /\ Len(InputTasks) = 2
    /\ task_key(InputTasks[1]) = task_key(InputTasks[2])
    /\ InputCount(InputTasks[1]) = 1 /\ InputCount(InputTasks[2]) = 1
    /\ InputTasks[1].image # InputTasks[2].image
    /\ Len(merged) = 1
    /\ merged[1].image = InputTasks[1].image

(***************************************************************************)
(* Properties of extract_and_flatten_zips.                                 *)
(***************************************************************************)
(* The candidate image files of the archives, each as <<archive, path>>.   *)
CandidateFiles ==
    {ip \in (DOMAIN zips) \X Paths :
        /\ ip[2] \in DOMAIN zips[ip[1]].files
        /\ IsCandidate(ip[2])}

ContentAt(ip) == zips[ip[1]].files[ip[2]]

DestNamesOf(content) == {n \in DOMAIN fs_dest.files : fs_dest.files[n] = content}

(* C3 as stated: when extract_and_flatten_zips returns, every image        *)
(* content of the archives is in the output directory exactly once and     *)
(* written + skipped is the number of candidate image files of the         *)
(* archives.                                                               *)
C3_OneCopyPerContentAndCountersSum ==
    pc = "flat_returned" =>
        /\ \A ip \in CandidateFiles : Cardinality(DestNamesOf(ContentAt(ip))) = 1
        /\ written + skipped = Cardinality(CandidateFiles)

(* C4 as stated: when extract_and_flatten_zips returns, two image files    *)
(* of the archives with the same file name and different content are both  *)
(* in the output directory, under two different names.                     *)
C4_SameNameDistinctContentBothKept ==
    pc = "flat_returned" =>
        \A ip, jq \in CandidateFiles :
            (NameOf(ip[2]) = NameOf(jq[2]) /\ ContentAt(ip) # ContentAt(jq)) =>
                \E n1 \in DestNamesOf(ContentAt(ip)) :
                    \E n2 \in DestNamesOf(ContentAt(jq)) : n1 # n2

(* C6: when control leaves extract_and_flatten_zips, by return or by an    *)
(* error, _unzips_tmp does not exist; and with a malformed archive among   *)
(* the arguments the call leaves by BadZipFile, never by a return.         *)
C6_TmpRemovedOnEveryExit ==
    pc \in {"flat_returned", "raised"} =>
        /\ ~fs_tmp.exists
        /\ (\E i \in DOMAIN zips : zips[i].kind = "corrupt")
              <=> (pc = "raised" /\ err = "BadZipFile")

(* The second archive is malformed and the first one was extracted.        *)
C6_Witness ==
    /\ pc = "raised"
    /\ err = "BadZipFile"
    /\ zi = 2
    /\ zips[1].kind = "ok" /\ zips[1].files # <<>>
    /\ ~fs_tmp.exists

(* C10 as stated: during the walk and after it, the output directory holds *)
(* as many files as were written and as there are recorded digests, and    *)
(* different digests are recorded with different names.                    *)
C10_NoCopyOverwrites ==
    pc \in {"flat_walk", "flat_returned"} =>
        /\ Cardinality(DOMAIN fs_dest.files) = written
        /\ Cardinality(DOMAIN seen_hash) = written
        /\ \A d1, d2 \in DOMAIN seen_hash : d1 # d2 => seen_hash[d1] # seen_hash[d2]

(***************************************************************************)
(* Properties of main.                                                     *)
(***************************************************************************)
(* C5 as stated: when main is left by FileNotFoundError, no audit copy,    *)
(* no merged JSON and no merged archive has been written.                  *)
C5_NoOutputOnMissingInput ==
    (pc = "raised" /\ err = "FileNotFoundError") =>
        /\ audit = {}
        /\ ~merged_json
        /\ ~merged_zip.exists

(* C7 as stated: when main is left, by return or by an error, the          *)
(* directory Temp does not exist.                                          *)
C7_TempRemovedOnEveryExit ==
    pc \in {"raised", "main_done"} => ~fs_dest.exists

====
